---- MODULE Spec2Model ----
(***************************************************************************)
(* A model of src/stats-updater.js: the SoccerStatsManager class (snapshot *)
(* cache, feed client, scorer-anchored merge, ranking) and the page        *)
(* handlers that drive it (DOMContentLoaded, the refresh button).          *)
(*                                                                         *)
(* A getAllPlayers call is an async function: it runs synchronously up to  *)
(* its only await (Promise.all of the two fetches of one league, line 121) *)
(* and is resumed once per league.  A run's position is kept in runs[r].pc *)
(* and its local variables (allPlayers, scorers, assists) in runs[r].      *)
(* ProcessLeague is the continuation of one await up to the end of the     *)
(* league's two forEach loops; NextLeague and Finish are the rest of that  *)
(* synchronous continuation, which reads nothing another run writes before *)
(* Finish itself.                                                          *)
(***************************************************************************)
EXTENDS Integers, Sequences, FiniteSets, TLC

\* ------------------------------------------------------------------ bounds
MaxFeedLen == 2       \* entries in one fetched feed (aggregation specification)
MaxRuns == 3          \* initialize calls on one manager (refresh specification)
MaxCalls == 2         \* initialize/getAllPlayers calls on one manager (page specification)
MaxTicks == 1         \* clock advances in one behaviour (page specification)

\* ------------------------------------------------------------------ CONFIG
\* JSON null / a missing property (an integer, so that it compares with counts).
Null == 0 - 1

CONFIG_API_KEY == "YOUR_API_KEY_HERE"
\* The literal initialize() compares CONFIG.API_KEY with.
KEY_CHECK_LITERAL == "57f67398e65a9dd967d70fe6ecfd76df"
\* Object.entries(CONFIG.LEAGUES), in insertion order.
LEAGUES == << "PREMIER_LEAGUE", "LA_LIGA" >>
CACHE_DURATION == 24 * 60 * 60 * 1000
TOP_PLAYERS_COUNT == 10

\* leagueName.replace('_', ' '): the first underscore only.
LeagueLabel(leagueName) ==
    CASE leagueName = "PREMIER_LEAGUE" -> "PREMIER LEAGUE"
      [] leagueName = "LA_LIGA" -> "LA LIGA"
      [] OTHER -> leagueName

\* ------------------------------------------------------------------ feed entries
\* A raw entry of a feed.  kind says which blocks the entry carries:
\*   ok       item.player, item.statistics[0] and its team/games/goals blocks
\*   noPlayer no item.player
\*   noStats  no item.statistics
\*   noGoals  item.statistics[0] without its goals block
\* goals is statistics[0].goals.total, assists is statistics[0].goals.assists;
\* the other fields of the entry (name, photo, team, position, appearences,
\* rating) are copied into the record under the same guard as goals and are
\* not represented.
Entry(kind, id, goals, assists) ==
    [kind |-> kind, id |-> id, goals |-> goals, assists |-> assists]

\* The entries a scorer feed is made of: two players, each with two versions
\* of its counts, an entry without a player block, an entry without goals.
ScorerEntries ==
    { Entry("ok", 1, 2, 1), Entry("ok", 1, Null, Null),
      Entry("ok", 2, 1, 1), Entry("ok", 2, 1, Null),
      Entry("noPlayer", 0, Null, Null), Entry("noGoals", 2, Null, Null) }

\* The entries an assist feed is made of: an assist count that is non-zero,
\* zero, or absent, an entry without a player block, one without statistics.
AssistEntries ==
    { Entry("ok", 1, Null, 2), Entry("ok", 1, Null, 0),
      Entry("ok", 2, Null, 2), Entry("ok", 2, Null, Null),
      Entry("noPlayer", 0, Null, Null), Entry("noStats", 1, Null, Null) }

\* A scorer feed with more players than the leaderboard holds, with ties.
BigFeed ==
    [i \in 1..(TOP_PLAYERS_COUNT + 1) |-> Entry("ok", i, 1 + (i % 2), Null)]

SeqsUpTo(S, n) == UNION { [1..k -> S] : k \in 0..n }

ScorerFeeds == SeqsUpTo(ScorerEntries, MaxFeedLen) \cup {BigFeed}
AssistFeeds == SeqsUpTo(AssistEntries, MaxFeedLen)

\* The feeds of the page specification: one well-formed player, two versions.
PageScorerFeeds ==
    { << Entry("ok", 1, 1, Null) >>, << Entry("ok", 1, 2, 1) >>,
      << Entry("noPlayer", 0, Null, Null) >> }
PageAssistFeeds == { << Entry("ok", 1, Null, 2) >> }

\* What fetchFromAPI does for one request: it resolves with data.response or
\* throws (network error, !response.ok, unparsable body).
Response(ok, data) == [ok |-> ok, data |-> data]
Responses(feeds) == { Response(TRUE, f) : f \in feeds } \cup { Response(FALSE, << >>) }

\* ------------------------------------------------------------------ feed client
\* getTopScorers / getTopAssists: the catch turns a throw of fetchFromAPI
\* into [].  thrown says whether the call itself rejects.
getTopScorersNoCatch(resp) == [thrown |-> ~resp.ok, data |-> resp.data]

getTopScorers(resp) ==
    IF resp.ok THEN [thrown |-> FALSE, data |-> resp.data]
    ELSE [thrown |-> FALSE, data |-> << >>]

getTopAssists(resp) ==
    IF resp.ok THEN [thrown |-> FALSE, data |-> resp.data]
    ELSE [thrown |-> FALSE, data |-> << >>]

\* ------------------------------------------------------------------ the Map
\* allPlayers is a Map: a sequence of records in insertion order, one per id.
Has(m, id) == \E i \in 1..Len(m) : m[i].id = id
IndexOf(m, id) == CHOOSE i \in 1..Len(m) : m[i].id = id
Get(m, id) == m[IndexOf(m, id)]
Ids(m) == { m[i].id : i \in 1..Len(m) }

\* x || d
OrElse(x, d) == IF x # Null /\ x # 0 THEN x ELSE d

\* The outcome of a loop body or loop: the map, or a thrown TypeError.
Ok(m) == [thrown |-> FALSE, map |-> m]
Thrown(m) == [thrown |-> TRUE, map |-> m]

\* The body of scorers.forEach (lines 127-146).
ScorerItem(m, item, leagueName) ==
    IF item.kind = "noPlayer" THEN Thrown(m)                      \* item.player.id
    ELSE IF item.kind = "noStats" THEN Thrown(m)                  \* item.statistics[0]
    ELSE IF Has(m, item.id) THEN Ok(m)
    ELSE IF item.kind = "noGoals" THEN Thrown(m)                  \* stats.goals.total
    ELSE Ok(Append(m, [id |-> item.id,
                       league |-> LeagueLabel(leagueName),
                       goals |-> OrElse(item.goals, 0),
                       assists |-> OrElse(item.assists, 0)]))

\* A merge that also inserts the players only the assist feed has.
AssistItemOuterJoin(m, item) ==
    IF item.kind = "noPlayer" THEN Thrown(m)
    ELSE IF ~Has(m, item.id) THEN
        IF item.kind = "ok"
        THEN Ok(Append(m, [id |-> item.id, league |-> "", goals |-> 0,
                           assists |-> OrElse(item.assists, 0)]))
        ELSE Ok(m)
    ELSE IF item.kind \in {"noStats", "noGoals"} THEN Thrown(m)
    ELSE Ok([m EXCEPT ![IndexOf(m, item.id)].assists =
                          OrElse(item.assists, m[IndexOf(m, item.id)].assists)])

\* A merge that overwrites the assists without the || fallback.
AssistItemNoFallback(m, item) ==
    IF item.kind = "noPlayer" THEN Thrown(m)
    ELSE IF ~Has(m, item.id) THEN Ok(m)
    ELSE IF item.kind \in {"noStats", "noGoals"} THEN Thrown(m)
    ELSE Ok([m EXCEPT ![IndexOf(m, item.id)].assists = OrElse(item.assists, 0)])

\* The body of assists.forEach (lines 149-156).
AssistItem(m, item) ==
    IF item.kind = "noPlayer" THEN Thrown(m)                      \* item.player.id
    ELSE IF ~Has(m, item.id) THEN Ok(m)
    ELSE IF item.kind = "noStats" THEN Thrown(m)                  \* item.statistics[0]
    ELSE IF item.kind = "noGoals" THEN Thrown(m)                  \* stats.goals.assists
    ELSE Ok([m EXCEPT ![IndexOf(m, item.id)].assists =
                          OrElse(item.assists, m[IndexOf(m, item.id)].assists)])

RECURSIVE ForEachScorer(_, _, _)
ForEachScorer(m, items, leagueName) ==
    IF items = << >> THEN Ok(m)
    ELSE LET r == ScorerItem(m, Head(items), leagueName)
         IN  IF r.thrown THEN r ELSE ForEachScorer(r.map, Tail(items), leagueName)

RECURSIVE ForEachAssist(_, _)
ForEachAssist(m, items) ==
    IF items = << >> THEN Ok(m)
    ELSE LET r == AssistItem(m, Head(items))
         IN  IF r.thrown THEN r ELSE ForEachAssist(r.map, Tail(items))

\* One iteration of the league loop after its await (lines 126-156).
MergeLeague(m, scorers, assists, leagueName) ==
    LET s == ForEachScorer(m, scorers, leagueName)
    IN  IF s.thrown THEN s ELSE ForEachAssist(s.map, assists)

\* ------------------------------------------------------------------ ranking
\* Array.from(allPlayers.values()).map(...): the derived field (lines 160-164).
WithCombined(p) ==
    [id |-> p.id, league |-> p.league, goals |-> p.goals, assists |-> p.assists,
     goalsAndAssists |-> p.goals + p.assists]

\* Array.prototype.sort with (a, b) => b.goalsAndAssists - a.goalsAndAssists:
\* a stable sort (ECMAScript 2019), here by insertion.  x goes before the first
\* element the comparator puts strictly after it.
RECURSIVE InsertSorted(_, _)
InsertSorted(sorted, x) ==
    IF sorted = << >> THEN << x >>
    ELSE IF Head(sorted).goalsAndAssists - x.goalsAndAssists < 0
         THEN << x >> \o sorted
         ELSE << Head(sorted) >> \o InsertSorted(Tail(sorted), x)

RECURSIVE SortFrom(_, _)
SortFrom(sorted, rest) ==
    IF rest = << >> THEN sorted
    ELSE SortFrom(InsertSorted(sorted, Head(rest)), Tail(rest))

\* A sort that puts a record before the records it ties with.
RECURSIVE InsertSortedUnstable(_, _)
InsertSortedUnstable(sorted, x) ==
    IF sorted = << >> THEN << x >>
    ELSE IF Head(sorted).goalsAndAssists - x.goalsAndAssists <= 0
         THEN << x >> \o sorted
         ELSE << Head(sorted) >> \o InsertSortedUnstable(Tail(sorted), x)

RECURSIVE SortFromUnstable(_, _)
SortFromUnstable(sorted, rest) ==
    IF rest = << >> THEN sorted
    ELSE SortFromUnstable(InsertSortedUnstable(sorted, Head(rest)), Tail(rest))

SortByCombinedUnstable(arr) == SortFromUnstable(<< >>, arr)

SortByCombined(arr) == SortFrom(<< >>, arr)

Min(a, b) == IF a <= b THEN a ELSE b

\* playersArray.slice(0, CONFIG.TOP_PLAYERS_COUNT)
Slice(arr, n) == SubSeq(arr, 1, Min(n, Len(arr)))

\* Lines 160-170: map, sort, slice.
TopPlayers(m) ==
    Slice(SortByCombined([i \in 1..Len(m) |-> WithCombined(m[i])]), TOP_PLAYERS_COUNT)

\* ------------------------------------------------------------------ snapshot cache
\* localStorage['ynwa_stats_cache'] and this.cache: no item / null ("none"), an
\* unparsable item ("corrupt") or {timestamp, players} ("snapshot").
NoItem == [kind |-> "none", timestamp |-> 0, players |-> << >>]
Corrupt == [kind |-> "corrupt", timestamp |-> 0, players |-> << >>]
Snapshot(t, players) == [kind |-> "snapshot", timestamp |-> t, players |-> players]

\* loadCache (lines 22-37) at time t: JSON.parse of a corrupt item throws into
\* the catch, and a stale or missing item falls through to return null.
loadCache(item, t) ==
    IF item.kind = "snapshot" /\ t - item.timestamp < CACHE_DURATION THEN item ELSE NoItem

\* A cache write that keeps the players of an unexpired item and only restamps it.
saveCachePartial(item, data, t) ==
    IF item.kind = "snapshot" THEN Snapshot(t, item.players) ELSE Snapshot(t, data)

\* saveCache (lines 40-50): the item after localStorage.setItem at time t.
saveCache(item, data, t) == Snapshot(t, data)

\* ------------------------------------------------------------------ state
VARIABLES
    apiKey,      \* CONFIG.API_KEY as deployed
    now,         \* Date.now()
    ticks,       \* clock advances so far
    storage,     \* localStorage['ynwa_stats_cache']
    cache,       \* this.cache
    runs,        \* the initialize/getAllPlayers calls on this manager, by number
    page,        \* .player-grid: what it shows
    disabled,    \* refreshBtn.disabled
    savedByMe,   \* history: a run of this manager stored the item, not invalidated since
    lastWrite    \* history: the last saveCache since the last invalidation (run 0: none)

vars == << apiKey, now, ticks, storage, cache, runs, page, disabled, savedByMe, lastWrite >>

Max(a, b) == IF a >= b THEN a ELSE b
RunIds == 1..Max(MaxRuns, MaxCalls)

\* The keys a deployment may carry: none, the placeholder of the repository,
\* the literal of the check in initialize, a key of the deployment's own.
ApiKeys == { "", CONFIG_API_KEY, KEY_CHECK_LITERAL, "a-configured-key" }
Unconfigured == { "", CONFIG_API_KEY }
\* The API answers a request without a valid key with an error or no entries.
KeyAccepted(k) == k \notin Unconfigured

NoWrite == [run |-> 0, players |-> << >>]

IdleRun ==
    [pc |-> "idle", caller |-> "none", league |-> 0,
     allPlayers |-> << >>, scorers |-> << >>, assists |-> << >>,
     result |-> << >>,     \* what a direct call of getAllPlayers returned
     \* history
     before |-> << >>, scorersFailed |-> FALSE, assistsFailed |-> FALSE,
     anyFailed |-> FALSE, hit |-> FALSE, hitAge |-> 0,
     expectHit |-> FALSE, expected |-> << >>]

Blank == [state |-> "blank", players |-> << >>]
Cards(players) == [state |-> "cards", players |-> players]
Warning == [state |-> "warning", players |-> << >>]
Error == [state |-> "error", players |-> << >>]

InFlight(r) == runs[r].pc \in {"awaiting", "fetched", "merged"}
Ended(r) == runs[r].pc \in {"done", "rejected", "warned"}

\* A leaderboard an earlier visit of the page may have left in localStorage.
OldLeaderboard == << WithCombined([id |-> 2, league |-> "LA LIGA", goals |-> 1, assists |-> 0]) >>

\* The state after `new SoccerStatsManager()` (lines 16-19) and addRefreshButton
\* in the DOMContentLoaded handler, before its call of initialize.
InitWith(keys, items, times) ==
    /\ apiKey \in keys
    /\ now \in times
    /\ ticks = 0
    /\ storage \in items
    /\ cache = loadCache(storage, now)
    /\ runs = [r \in RunIds |-> IdleRun]
    /\ page = Blank
    /\ disabled = FALSE
    /\ savedByMe = FALSE
    /\ lastWrite = NoWrite

Init ==
    InitWith(ApiKeys,
             {NoItem, Corrupt, Snapshot(0, OldLeaderboard)},
             {CACHE_DURATION - 1, CACHE_DURATION})

\* ------------------------------------------------------------------ actions
\* Date.now() advances.
Tick ==
    /\ ticks < MaxTicks
    /\ \E d \in {1, CACHE_DURATION} : now' = now + d
    /\ ticks' = ticks + 1
    /\ UNCHANGED << apiKey, storage, cache, runs, page, disabled, savedByMe, lastWrite >>

\* getAllPlayers up to its first await (lines 107-121), as run r, reading the
\* cache c.  viaInitialize: called from initialize, which renders the result.
\* stored: the item a run of this manager has stored and nothing invalidated
\* since (NoItem: none); the history fields record whether it is still
\* unexpired at this call.
EnterGetAllPlayers(r, caller, c, viaInitialize, stored) ==
    LET fresh == stored.kind = "snapshot" /\ now - stored.timestamp < CACHE_DURATION
        base == [IdleRun EXCEPT !.caller = caller,
                     !.expectHit = fresh,
                     !.expected = IF fresh THEN stored.players ELSE << >>]
    IN  IF c.kind = "snapshot"
        THEN /\ runs' = [runs EXCEPT ![r] = [base EXCEPT !.pc = "done", !.hit = TRUE,
                                                 !.hitAge = now - c.timestamp,
                                                 !.result = IF viaInitialize THEN << >>
                                                            ELSE c.players]]
             /\ page' = IF viaInitialize THEN Cards(c.players) ELSE page
        ELSE /\ runs' = [runs EXCEPT ![r] = [base EXCEPT !.pc = "awaiting", !.league = 1]]
             /\ page' = page

\* initialize (lines 349-367) up to the first await of getAllPlayers.
EnterInitialize(r, caller, c, stored) ==
    IF apiKey = KEY_CHECK_LITERAL
    THEN /\ runs' = [runs EXCEPT ![r] = [IdleRun EXCEPT !.pc = "warned", !.caller = caller]]
         /\ page' = Warning
    ELSE EnterGetAllPlayers(r, caller, c, TRUE, stored)

StoredByMe == IF savedByMe THEN storage ELSE NoItem

NextFree(r) == runs[r].pc = "idle" /\ \A q \in RunIds : q < r => runs[q].pc # "idle"

\* The DOMContentLoaded handler calls initialize (line 401).
PageLoad ==
    /\ NextFree(1)
    /\ EnterInitialize(1, "load", cache, StoredByMe)
    /\ UNCHANGED << apiKey, now, ticks, storage, cache, disabled, savedByMe, lastWrite >>

\* The click handler of the refresh button (lines 321-330): a disabled button
\* dispatches no click.
ClickRefresh(r) ==
    /\ r > 1 /\ NextFree(r)
    /\ ~disabled
    /\ disabled' = TRUE
    /\ storage' = NoItem
    /\ cache' = NoItem
    /\ savedByMe' = FALSE
    /\ lastWrite' = NoWrite
    /\ EnterInitialize(r, "refresh", NoItem, NoItem)
    /\ UNCHANGED << apiKey, now, ticks >>

\* setTimeout of the click handler (lines 332-335, 338-341), armed when its
\* initialize has ended.
TimerFires ==
    /\ disabled
    /\ \A r \in RunIds : runs[r].caller = "refresh" => Ended(r)
    /\ disabled' = FALSE
    /\ UNCHANGED << apiKey, now, ticks, storage, cache, runs, page, savedByMe, lastWrite >>

\* A call of the public method getAllPlayers on the same manager.
CallGetAllPlayers(r) ==
    /\ r > 1 /\ NextFree(r)
    /\ EnterGetAllPlayers(r, "direct", cache, FALSE, StoredByMe)
    /\ UNCHANGED << apiKey, now, ticks, storage, cache, disabled, savedByMe, lastWrite >>

\* What initialize's catch does to the page when getAllPlayers rejects.
PageAfterReject(r) == IF runs[r].caller = "direct" THEN page ELSE Error

\* The await of line 121 resolves, both fetches having ended each with one of
\* the given responses, and the two forEach loops of the league run (lines
\* 121-156).  A TypeError of a loop leaves getAllPlayers and is caught by
\* initialize (lines 363-366).
ProcessLeague(r, scorerResponses, assistResponses) ==
    /\ runs[r].pc = "awaiting"
    /\ \E sr \in scorerResponses, ar \in assistResponses :
         LET s == getTopScorers(sr)
             a == getTopAssists(ar)
             m == MergeLeague(runs[r].allPlayers, s.data, a.data, LEAGUES[runs[r].league])
             seen == [runs[r] EXCEPT !.scorers = s.data, !.assists = a.data,
                                     !.before = runs[r].allPlayers,
                                     !.scorersFailed = ~sr.ok, !.assistsFailed = ~ar.ok,
                                     !.anyFailed = runs[r].anyFailed \/ ~sr.ok \/ ~ar.ok]
         IN  IF s.thrown \/ a.thrown
             THEN /\ runs' = [runs EXCEPT ![r] = [runs[r] EXCEPT !.pc = "rejected",
                                                     !.scorersFailed = ~sr.ok,
                                                     !.assistsFailed = ~ar.ok]]
                  /\ page' = PageAfterReject(r)
             ELSE IF m.thrown
             THEN /\ runs' = [runs EXCEPT ![r] = [seen EXCEPT !.pc = "rejected"]]
                  /\ page' = PageAfterReject(r)
             ELSE /\ runs' = [runs EXCEPT ![r] = [seen EXCEPT !.pc = "merged",
                                                              !.allPlayers = m.map]]
                  /\ page' = page
    /\ UNCHANGED << apiKey, now, ticks, storage, cache, disabled, savedByMe, lastWrite >>

\* The league loop goes to its next iteration (line 118).
NextLeague(r) ==
    /\ runs[r].pc = "merged"
    /\ runs[r].league < Len(LEAGUES)
    /\ runs' = [runs EXCEPT ![r].pc = "awaiting",
                            ![r].league = runs[r].league + 1,
                            ![r].scorers = << >>, ![r].assists = << >>,
                            ![r].before = << >>,
                            ![r].scorersFailed = FALSE, ![r].assistsFailed = FALSE]
    /\ UNCHANGED << apiKey, now, ticks, storage, cache, page, disabled, savedByMe, lastWrite >>

\* After the last league: rank, saveCache, return (lines 159-175), and
\* initialize renders the result (line 361).
Finish(r) ==
    /\ runs[r].pc = "merged"
    /\ runs[r].league = Len(LEAGUES)
    /\ LET topPlayers == TopPlayers(runs[r].allPlayers)
       IN  /\ storage' = saveCache(storage, topPlayers, now)
           /\ runs' = [runs EXCEPT ![r] = [IdleRun EXCEPT !.pc = "done",
                                       !.caller = runs[r].caller,
                                       !.anyFailed = runs[r].anyFailed,
                                       !.expectHit = runs[r].expectHit,
                                       !.expected = runs[r].expected,
                                       !.result = IF runs[r].caller = "direct"
                                                  THEN topPlayers ELSE << >>]]
           /\ page' = IF runs[r].caller = "direct" THEN page ELSE Cards(topPlayers)
    /\ savedByMe' = TRUE
    /\ lastWrite' = [run |-> r, players |-> TopPlayers(runs[r].allPlayers)]
    /\ UNCHANGED << apiKey, now, ticks, cache, disabled >>

FetchResponses(feeds) ==
    IF KeyAccepted(apiKey) THEN Responses(feeds) ELSE Responses({ << >> })

\* ------------------------------------------------------------------ specifications
\* The page: any key, any earlier item, the load run, refresh clicks and
\* direct calls interleaved.
Next ==
    \/ Tick
    \/ PageLoad
    \/ \E r \in 1..MaxCalls : ClickRefresh(r)
    \/ TimerFires
    \/ \E r \in 1..MaxCalls : CallGetAllPlayers(r)
    \/ \E r \in 1..MaxCalls : ProcessLeague(r, FetchResponses(PageScorerFeeds),
                                              FetchResponses(PageAssistFeeds))
    \/ \E r \in 1..MaxCalls : NextLeague(r)
    \/ \E r \in 1..MaxCalls : Finish(r)

Spec == Init /\ [][Next]_vars

\* One aggregation run (the page-load run on an empty cache, with a
\* configured key) over every feed of the bound.
InitMerge == InitWith({"a-configured-key"}, {NoItem}, {0})

NextMerge ==
    \/ PageLoad
    \/ ProcessLeague(1, Responses(ScorerFeeds), Responses(AssistFeeds))
    \/ NextLeague(1)
    \/ Finish(1)

SpecMerge == InitMerge /\ [][NextMerge]_vars

\* The refresh button: the page-load run and refresh clicks interleaved, with
\* a configured key, at one instant.
InitRefresh ==
    InitWith({"a-configured-key"}, {NoItem, Snapshot(0, OldLeaderboard)}, {CACHE_DURATION - 1})

NextRefresh ==
    \/ PageLoad
    \/ \E r \in RunIds : ClickRefresh(r)
    \/ TimerFires
    \/ \E r \in RunIds : ProcessLeague(r, Responses(PageScorerFeeds), Responses(PageAssistFeeds))
    \/ \E r \in RunIds : NextLeague(r)
    \/ \E r \in RunIds : Finish(r)

SpecRefresh == InitRefresh /\ [][NextRefresh]_vars

\* ------------------------------------------------------------------ properties
\* The player identifiers a feed carries.
FeedIds(feed) == { feed[i].id : i \in { j \in 1..Len(feed) : feed[j].kind # "noPlayer" } }
\* The entries of a feed that carry identifier id, in feed order.
EntriesOf(feed, id) == SelectSeq(feed, LAMBDA e : e.kind # "noPlayer" /\ e.id = id)
NonZero(feed) == SelectSeq(feed, LAMBDA e : e.assists # Null /\ e.assists # 0)
Malformed(feed) == \E i \in 1..Len(feed) : feed[i].kind # "ok"
IsPrefix(a, b) == Len(a) <= Len(b) /\ \A i \in 1..Len(a) : b[i] = a[i]

\* The run the aggregation specification follows.
Agg == runs[1]

\* C1 (scorer-anchored join): after the merge step of a competition whose
\* scorer feed and assist feed share no player identifier, the identifiers of
\* the mapping are those it held before plus exactly those of the scorer
\* feed; in the first competition, exactly those of the scorer feed.  No
\* identifier that only the assist feed has is added.
C1_ScorerAnchoredJoin ==
    (Agg.pc = "merged" /\ FeedIds(Agg.scorers) \cap FeedIds(Agg.assists) = {})
    => /\ Ids(Agg.allPlayers) = Ids(Agg.before) \cup FeedIds(Agg.scorers)
       /\ Agg.league = 1 => Ids(Agg.allPlayers) = FeedIds(Agg.scorers)
       /\ \A id \in FeedIds(Agg.assists) \ Ids(Agg.before) : ~Has(Agg.allPlayers, id)

C1_Witness ==
    /\ Agg.pc = "merged"
    /\ FeedIds(Agg.scorers) = {1}
    /\ FeedIds(Agg.assists) = {2}
    /\ Agg.before = << >>
    /\ Ids(Agg.allPlayers) = {1}

\* C2 (no overwrite across competitions): after the second competition is
\* merged, every record the first competition set is what it was, field by
\* field.
C2_NeverOverwritten ==
    (Agg.pc = "merged" /\ Agg.league = 2) => IsPrefix(Agg.before, Agg.allPlayers)

\* The assists C5 gives player id after a competition with these feeds: the
\* assist feed's count when present and non-zero (the last such entry when it
\* has several), else the assists of the player's scorer entry, default 0.
ReconciledAssists(scorers, assists, id) ==
    LET counted == NonZero(EntriesOf(assists, id))
        own == EntriesOf(scorers, id)[1].assists
    IN  IF counted # << >> THEN counted[Len(counted)].assists
        ELSE IF own = Null THEN 0 ELSE own

InBothFeeds(run) == FeedIds(run.scorers) \cap FeedIds(run.assists)

\* C5 as claimed (assist reconciliation): after the merge step of a
\* competition, every player of both its feeds has the reconciled assists.
C5_Original ==
    Agg.pc = "merged"
    => \A id \in InBothFeeds(Agg) :
         Get(Agg.allPlayers, id).assists = ReconciledAssists(Agg.scorers, Agg.assists, id)

\* C5 as amended: the same, for the players whose record this competition
\* created, that is, whose identifier the mapping did not hold from an
\* earlier competition.
C5_AssistReconciliation ==
    Agg.pc = "merged"
    => \A id \in InBothFeeds(Agg) \ Ids(Agg.before) :
         Get(Agg.allPlayers, id).assists = ReconciledAssists(Agg.scorers, Agg.assists, id)

C5_Witness ==
    /\ Agg.pc = "merged"
    /\ Agg.before = << >>
    /\ Agg.scorers = << Entry("ok", 1, 2, 1), Entry("ok", 2, 1, 1) >>
    /\ Agg.assists = << Entry("ok", 1, Null, 2), Entry("ok", 2, Null, Null) >>
    /\ Get(Agg.allPlayers, 1).assists = 2
    /\ Get(Agg.allPlayers, 2).assists = 1

\* The place of record k of mapping m in the ranking: one more than the
\* records that beat it, by a higher goals + assists or, at the same, by an
\* earlier insertion.
Score(p) == p.goals + p.assists
Place(m, k) ==
    1 + Cardinality({ j \in 1..Len(m) :
                        Score(m[j]) > Score(m[k]) \/ (Score(m[j]) = Score(m[k]) /\ j < k) })

Ranked(m, board) ==
    /\ Len(board) = Min(TOP_PLAYERS_COUNT, Len(m))
    /\ \A k \in 1..Len(m) :
         Place(m, k) <= Len(board)
         => /\ board[Place(m, k)].id = m[k].id
            /\ board[Place(m, k)].league = m[k].league
            /\ board[Place(m, k)].goals = m[k].goals
            /\ board[Place(m, k)].assists = m[k].assists
            /\ board[Place(m, k)].goalsAndAssists = m[k].goals + m[k].assists
    /\ \A i, j \in 1..Len(board) :
         i < j => board[i].goalsAndAssists >= board[j].goalsAndAssists

\* C6 (ranking): the leaderboard a cache-miss run renders and stores is its
\* mapping ordered by goals + assists descending, ties in insertion order,
\* cut to min(TOP_PLAYERS_COUNT, number of players); empty for no player.
C6_Ranking ==
    [][(Agg.pc = "merged" /\ runs'[1].pc = "done")
       => /\ Ranked(Agg.allPlayers, page'.players)
          /\ storage'.players = page'.players
          /\ (Agg.allPlayers = << >> => page'.players = << >>)]_vars

C6_Witness ==
    /\ Agg.pc = "done"
    /\ page.state = "cards"
    /\ Len(page.players) = TOP_PLAYERS_COUNT
    /\ \E i \in 1..(TOP_PLAYERS_COUNT - 1) :
         page.players[i].goalsAndAssists = page.players[i + 1].goalsAndAssists
    /\ page.players[1].goalsAndAssists > page.players[TOP_PLAYERS_COUNT].goalsAndAssists

\* C7 as claimed (transport failure): a competition one of whose fetches
\* failed adds no record.
C7_Original ==
    (Agg.pc = "merged" /\ (Agg.scorersFailed \/ Agg.assistsFailed))
    => Ids(Agg.allPlayers) = Ids(Agg.before)

\* C7 as amended: a failed fetch is seen as an empty sequence; a competition
\* whose scorer fetch failed adds no record, and one of which only the assist
\* fetch failed adds exactly the players of its scorer feed and changes no
\* earlier record; a run rejects only on a malformed entry, never on a
\* failed fetch, and a run that ends otherwise has stored and rendered its
\* leaderboard.
C7_PartialResult ==
    /\ Agg.pc \in {"merged", "rejected"}
       => /\ Agg.scorersFailed => Agg.scorers = << >>
          /\ Agg.assistsFailed => Agg.assists = << >>
    /\ (Agg.pc = "merged" /\ Agg.scorersFailed) => Ids(Agg.allPlayers) = Ids(Agg.before)
    /\ (Agg.pc = "merged" /\ Agg.assistsFailed /\ ~Agg.scorersFailed)
       => /\ Ids(Agg.allPlayers) = Ids(Agg.before) \cup FeedIds(Agg.scorers)
          /\ IsPrefix(Agg.before, Agg.allPlayers)
    /\ Agg.pc = "rejected" => Malformed(Agg.scorers) \/ Malformed(Agg.assists)
    /\ page.state = "error" => Agg.pc = "rejected"
    /\ Agg.pc = "done"
       => storage.kind = "snapshot" /\ page = Cards(storage.players)

\* A run that lost both fetches of the first competition and ended with the
\* players of the second.
C7_Witness ==
    /\ Agg.pc = "done"
    /\ Agg.anyFailed
    /\ storage.kind = "snapshot"
    /\ Len(storage.players) = 2
    /\ \A i \in 1..2 : storage.players[i].league = "LA LIGA"

\* C8 (fail-soft per record): no entry makes a run abort or the page show
\* the error state.
C8_FailSoftPerRecord == Agg.pc # "rejected" /\ page.state # "error"

\* C3 (get after put): with a configured key, a getAllPlayers call made
\* while an item this manager stored is unexpired and not invalidated returns
\* that item's leaderboard from the cache, without fetching.
C3_GetAfterPut ==
    apiKey = "a-configured-key"
    => \A r \in RunIds :
         runs[r].expectHit => runs[r].hit /\ runs[r].result = runs[r].expected

\* C4 (expiry): with a configured key, a getAllPlayers call is served the
\* snapshot only while the snapshot is younger than CACHE_DURATION.
C4_Expiry ==
    apiKey = "a-configured-key"
    => \A r \in RunIds : runs[r].hit => runs[r].hitAge < CACHE_DURATION

\* C9 (configuration failure): with the key missing or the placeholder,
\* every initialize ends in the API-key warning and no run stores a snapshot.
C9_ConfigurationFailure ==
    apiKey \in Unconfigured
    => /\ \A r \in RunIds : runs[r].caller \in {"load", "refresh"} => runs[r].pc = "warned"
       /\ lastWrite.run = 0
       /\ page.state \in {"blank", "warning"}

\* C10 (refresh under interleaving): every cache write replaces the whole
\* item by the snapshot of the writing run's own leaderboard; the item
\* changes in no other way but a click's removal; a click leaves every run
\* in flight as it is, and a run in flight stays in flight until it ends by
\* itself; and once no run is in flight and a run has written since the last
\* click, the item holds exactly the leaderboard of the last writer.
AllEnded == \A r \in RunIds : ~InFlight(r)
Finishing(r) == runs[r].pc = "merged" /\ runs'[r].pc = "done"
Clicking(r) == runs[r].pc = "idle" /\ runs'[r].caller = "refresh"

C10_WriteStep ==
    /\ \A r \in RunIds :
         Finishing(r) => storage' = Snapshot(now, TopPlayers(runs[r].allPlayers))
    /\ storage' # storage
       => \/ \E r \in RunIds : Finishing(r)
          \/ storage' = NoItem /\ \E r \in RunIds : Clicking(r)
    /\ \A r \in RunIds :
         InFlight(r)
         => /\ runs'[r].pc \in {"awaiting", "merged", "done", "rejected"}
            /\ (\E q \in RunIds : q # r /\ runs'[q] # runs[q]) => runs'[r] = runs[r]

C10_Settled ==
    (AllEnded /\ lastWrite.run # 0)
    => /\ storage.kind = "snapshot"
       /\ storage.players = lastWrite.players
       /\ runs[lastWrite.run].pc = "done"

C10_LastWriteWins == [](C10_Settled) /\ [][C10_WriteStep]_vars

\* The page-load run wrote last, after two refresh runs had written.
C10_Witness ==
    /\ AllEnded
    /\ runs[1].pc = "done" /\ runs[2].pc = "done" /\ runs[3].pc = "done"
    /\ lastWrite.run = 1
    /\ storage.players # << >>

====
